---- MODULE Spec2Model ----
(***************************************************************************)
(* The resilient HTTP access layer of jira-po-toolkit:                     *)
(*   - jira_config.get_ssl_verify     (trust resolution)                   *)
(*   - jira_config.get_jira_session   (shared session with urllib3 Retry)  *)
(*   - jira_async.fetch_epic_batch_async (bounded concurrent batch fetch)  *)
(*     and its wrappers fetch_issues_batch_async, fetch_*_sync             *)
(*   - the pagination loops of jpt, jira_metrics and the sanity checks     *)
(*   - get_jira_session under functools.lru_cache with several callers     *)
(* Strings whose content the code inspects (strip, lower, path handling)   *)
(* are sequences of one-character strings.                                 *)
(***************************************************************************)
EXTENDS Integers, Sequences, FiniteSets, TLC

VARIABLES
    envJT,      \* os.environ.get('JT_SSL_VERIFY')
    envCA,      \* os.environ.get('REQUESTS_CA_BUNDLE')
    fileRaw,    \* text after "JT_SSL_VERIFY=" in .jira_environment (None: no such line)
    envCache,   \* lru_cache entry of load_jira_env(env_path=None): [loaded, value]
    sslCall,    \* the last get_ssl_verify() call: its inputs and its outcome
    fileAuth,   \* JT_JIRA_USERNAME / JT_JIRA_PASSWORD of .jira_environment
    authCache   \* lru_cache entry of load_jira_env(): [loaded, value]

trustVars == <<envJT, envCA, fileRaw, envCache, sslCall, fileAuth, authCache>>

VARIABLES
    reqPc,      \* a call on the shared session: "idle", "sending", "returned", "raised"
    reqMethod,  \* its HTTP method
    retryTotal, \* Retry.total of the call's Retry object
    sent,       \* requests put on the wire for the call
    hist,       \* what the server answered to them, in order
    reqResult,  \* the response returned, or the error raised
    sleeps      \* the Retry.sleep() calls of the call, one before each resend

sessVars == <<reqPc, reqMethod, retryTotal, sent, hist, reqResult, sleeps>>

VARIABLES
    batchPc,        \* the coroutine: "idle", "running", "returned", "raised"
    epic_keys,      \* its epic_keys argument
    max_concurrent, \* its max_concurrent argument
    semaphore,      \* the value of asyncio.Semaphore(max_concurrent)
    taskPc,         \* per task: "waiting", "request", "sleep", "done", "raised"
    attempt,        \* per task: the loop variable of `for attempt in range(3)`
    nreq,           \* per task: session.get calls made
    slept,          \* per task: the asyncio.sleep durations, in order
    lastResp,       \* per task: what its session.get produced (NoResp while in flight)
    taskResult,     \* per task: the second component of the tuple it returned
    results,        \* the mapping fetch_epic_batch_async returns
    entry,          \* the function of jira_async the caller called
    inLoop,         \* whether the caller runs inside a running event loop
    created,        \* the objects the call constructed
    ssl_verify_arg, \* its ssl_verify argument: "True", "False" or "path" (a CA bundle)
    ssl_context,    \* the ssl_context it built (lines 70-80)
    reqTrust,       \* how the requests issued so far verify the server certificate
    callerGot       \* what the called function handed to its caller

batchVars == <<batchPc, epic_keys, max_concurrent, semaphore, taskPc, attempt, nreq,
               slept, lastResp, taskResult, results, entry, inLoop, created,
               ssl_verify_arg, ssl_context, reqTrust, callerGot>>

VARIABLES
    pagePc,     \* a paginated fetch: "idle", "fetching", "done"
    pageFn,     \* the function whose loop runs
    page_size,  \* maxResults of its requests
    dataTotal,  \* data["total"]: the total every response of the server declares
    serves,     \* the server: startAt |-> number of issues in the page it answers
    start_at,   \* the loop's start_at
    issues,     \* the loop's issues list (issue i is the i-th of the server)
    pageReqs,   \* startAt of the requests sent, in order
    pageTick    \* parity of the number of requests sent

pageVars == <<pagePc, pageFn, page_size, dataTotal, serves, start_at, issues, pageReqs,
              pageTick>>

VARIABLES
    sessCache,   \* lru_cache of get_jira_session: the cached session, 0 when empty
    sessions,    \* the requests.Session objects constructed so far, in order
    thPc,        \* per thread: "idle", or "building" inside get_jira_session's body
    thGot,       \* per thread: the session its last call returned (0: none, -1: raised)
    epochGot,    \* the sessions returned by calls since the last cache_clear()
    everCleared, \* get_jira_session.cache_clear() has emptied the cache
    rejectedSince, \* a call has raised and no cache has been cleared since
    thAfter,     \* per thread: its call began after such a raise
    lastCall     \* the call completed last: how it ended and what it met

clientVars == <<sessCache, sessions, thPc, thGot, epochGot, everCleared,
                rejectedSince, thAfter, lastCall>>

VARIABLES
    getPc,       \* a call of jpt.jira_get: "idle", "sending", "sleeping", "returned", "raised"
    max_retries, \* its max_retries argument
    backoff,     \* its backoff argument
    getAttempt,  \* the loop variable `attempt`
    getSent,     \* sess.get calls made
    getSleeps,   \* the arguments of time.sleep, in order
    getHist,     \* what the sess.get calls produced, in order
    getResult    \* what the call returned or raised

getVars == <<getPc, max_retries, backoff, getAttempt, getSent, getSleeps, getHist, getResult>>

VARIABLES
    metaCache,   \* lru_cache of get_cached_sprint_metadata: argument tuple |-> result
    metaReqs,    \* per argument tuple: session.get calls since the last clear
    metaOk,      \* per argument tuple: calls that fetched and returned since the last clear
    metaFailed,  \* per argument tuple: calls that fetched and raised since the last clear
    metaLast,    \* the call completed last since the last clear
    metaCleared, \* clear_sprint_cache() has been called
    sprintVer    \* the server: per sprint, the version of its metadata

metaVars == <<metaCache, metaReqs, metaOk, metaFailed, metaLast, metaCleared, sprintVer>>

VARIABLES
    logPc,       \* a log record: "none", "made" (constructed), "filtered"
    recMsg,      \* record.msg
    recArgs,     \* record.args
    recMade,     \* msg and args as the record was constructed
    filterRet    \* what SensitiveDataFilter.filter returned

logVars == <<logPc, recMsg, recArgs, recMade, filterRet>>

moreVars == <<getVars, metaVars, logVars>>

vars == <<trustVars, sessVars, batchVars, pageVars, clientVars, moreVars>>

-----------------------------------------------------------------------------
(* Strings *)

\* Python's None, kept apart from every string (strings hold single characters)
None == <<"<None>">>

\* characters str.strip() removes
Whitespace == {" ", "\t", "\n"}

UpperToLower ==
    ("A" :> "a") @@ ("B" :> "b") @@ ("D" :> "d") @@ ("E" :> "e") @@ ("F" :> "f") @@
    ("I" :> "i") @@ ("L" :> "l") @@ ("N" :> "n") @@ ("O" :> "o") @@ ("R" :> "r") @@
    ("S" :> "s") @@ ("T" :> "t") @@ ("U" :> "u") @@ ("Y" :> "y")

\* str.lower(), character by character
Lower(s) == [i \in 1..Len(s) |-> IF s[i] \in DOMAIN UpperToLower THEN UpperToLower[s[i]] ELSE s[i]]

RECURSIVE LStrip(_, _)
LStrip(s, cs) == IF s # <<>> /\ Head(s) \in cs THEN LStrip(Tail(s), cs) ELSE s

RECURSIVE RStrip(_, _)
RStrip(s, cs) == IF s # <<>> /\ s[Len(s)] \in cs THEN RStrip(SubSeq(s, 1, Len(s) - 1), cs) ELSE s

\* str.strip(chars)
StripChars(s, cs) == RStrip(LStrip(s, cs), cs)

\* str.strip()
Strip(s) == StripChars(s, Whitespace)

\* Python truthiness of an Optional[str]: `not v`
Falsy(v) == v = None \/ v = <<>>

FalseTokens ==
    { <<"f","a","l","s","e">>, <<"0">>, <<"n","o">>, <<"o","f","f">>,
      <<"d","i","s","a","b","l","e","d">> }

TrueTokens ==
    { <<"t","r","u","e">>, <<"1">>, <<"y","e","s">>, <<"o","n">>,
      <<"e","n","a","b","l","e","d">> }

-----------------------------------------------------------------------------
(* The file system and pathlib *)

\* BASE_DIR, the directory of jira_config.py
BASE_DIR == <<"/","b">>

\* the home directory of the current user
HomeDir == <<"/","h">>

\* users the password database knows, besides the current one
KnownUsers == { <<"u">> }

UserHome(user) == <<"/","h","u">>

\* regular files that exist
Files == { <<"/","c">>, <<"/","b","/","r">>, <<"/","h","/","c">>, <<"/","h","u","/","c">> }

\* symbolic links that exist, with their targets
Symlinks == ( <<"/","l">> :> <<"/","c">> )

RECURSIVE FirstSlash(_, _)
FirstSlash(s, i) == IF i > Len(s) \/ s[i] = "/" THEN i ELSE FirstSlash(s, i + 1)

\* Path.expanduser(): ok = FALSE is the RuntimeError pathlib raises when the
\* home directory of "~user" cannot be determined
ExpandUser(s) ==
    IF s = <<>> \/ Head(s) # "~" THEN [ok |-> TRUE, path |-> s]
    ELSE LET i    == FirstSlash(s, 2)
             user == SubSeq(s, 2, i - 1)
             rest == SubSeq(s, i, Len(s))
         IN  IF user = <<>> THEN [ok |-> TRUE, path |-> HomeDir \o rest]
             ELSE IF user \in KnownUsers THEN [ok |-> TRUE, path |-> UserHome(user) \o rest]
             ELSE [ok |-> FALSE, path |-> s]

IsAbsolute(p) == p # <<>> /\ Head(p) = "/"

\* Path.exists() follows symbolic links
PathExists(p) == p \in Files \/ p \in DOMAIN Symlinks

\* Path.resolve()
Resolve(p) == IF p \in DOMAIN Symlinks THEN Symlinks[p] ELSE p

-----------------------------------------------------------------------------
(* jira_config: configuration file and trust resolution *)

\* _parse_line: value.strip().strip('"').strip("'")
ParseValue(raw) == StripChars(StripChars(Strip(raw), {"\""}), {"'"})

\* load_jira_env() on the file as it is now
ReadFile == IF fileRaw = None THEN None ELSE ParseValue(fileRaw)

\* get_jira_setting('JT_SSL_VERIFY'): env.get(key) of the cached load_jira_env()
get_jira_setting == IF envCache.loaded THEN envCache.value ELSE ReadFile

\* mutant: REQUESTS_CA_BUNDLE is consulted before the file
EffectiveSetting_BundleFirst(jt, file, ca) ==
    LET s1 == jt
        s2 == IF Falsy(s1) THEN ca ELSE s1
        s3 == IF Falsy(s2) THEN file ELSE s2
    IN  s3

\* The source get_ssl_verify() decides from (lines 69-79)
EffectiveSetting(jt, file, ca) ==
    LET s1 == jt
        s2 == IF Falsy(s1) THEN file ELSE s1
        s3 == IF Falsy(s2) THEN ca ELSE s2
    IN  s3

ResTrue(warned) == [kind |-> "True", path |-> <<>>, warned |-> warned]
ResPath(p) == [kind |-> "path", path |-> p, warned |-> FALSE]
ResRaise(e) == [kind |-> e, path |-> <<>>, warned |-> FALSE]

\* mutant: the value is lower-cased without being stripped
Decide_NoStrip(ssl_verify) ==
    IF Falsy(ssl_verify) THEN ResTrue(FALSE)
    ELSE LET ssl_verify_lower == Lower(ssl_verify)
         IN  IF ssl_verify_lower \in FalseTokens THEN ResRaise("ValueError")
             ELSE IF ssl_verify_lower \in TrueTokens THEN ResTrue(FALSE)
             ELSE ResTrue(TRUE)

ResFalse == [kind |-> "False", path |-> <<>>, warned |-> FALSE]

\* mutant: a boolean-false token switches verification off
Decide_AcceptFalse(ssl_verify) ==
    IF Falsy(ssl_verify) THEN ResTrue(FALSE)
    ELSE LET ssl_verify_lower == Lower(Strip(ssl_verify))
         IN  IF ssl_verify_lower \in FalseTokens THEN ResFalse
             ELSE IF ssl_verify_lower \in TrueTokens THEN ResTrue(FALSE)
             ELSE LET ex == ExpandUser(ssl_verify)
                      cert_path == IF IsAbsolute(ex.path) THEN ex.path
                                   ELSE BASE_DIR \o <<"/">> \o ex.path
                  IN  IF ~ex.ok THEN ResRaise("RuntimeError")
                      ELSE IF PathExists(cert_path) THEN ResPath(Resolve(cert_path))
                      ELSE ResTrue(TRUE)

\* get_ssl_verify() from line 81 on, for the chosen setting
Decide(ssl_verify) ==
    IF Falsy(ssl_verify) THEN ResTrue(FALSE)
    ELSE LET ssl_verify_lower == Lower(Strip(ssl_verify))
         IN  IF ssl_verify_lower \in FalseTokens THEN ResRaise("ValueError")
             ELSE IF ssl_verify_lower \in TrueTokens THEN ResTrue(FALSE)
             ELSE LET ex == ExpandUser(ssl_verify)
                      cert_path == IF IsAbsolute(ex.path) THEN ex.path
                                   ELSE BASE_DIR \o <<"/">> \o ex.path
                  IN  IF ~ex.ok THEN ResRaise("RuntimeError")
                      ELSE IF PathExists(cert_path) THEN ResPath(Resolve(cert_path))
                      ELSE ResTrue(TRUE)

\* values given to JT_SSL_VERIFY in the process environment
EnvValues ==
    { None, <<>>, <<" ">>,
      <<"f","a","l","s","e">>, <<" ","O","f","f","\t">>, <<"N","O">>,
      <<"t","r","u","e">>, <<"Y","E","S"," ">>,
      <<"/","c">>, <<"/","l">>, <<"/","x">>, <<"r">>,
      <<"~","/","c">>, <<"~","/","x">>, <<"~","q","/","c">> }

\* values given to REQUESTS_CA_BUNDLE in the process environment
BundleValues == { None, <<"/","c">>, <<"/","x">>, <<"0">> }

\* texts after "JT_SSL_VERIFY=" in .jira_environment
FileValues ==
    { None, <<" ","\"","o","f","f","\""," ">>, <<"'","/","c","'">>,
      <<"\"","\"">>, <<"O","n">> }

\* no credentials: `if username and api_token` fails and session.auth stays None
NoAuth == <<>>

NoCall == [called |-> FALSE, jt |-> None, file |-> None, ca |-> None, result |-> ResTrue(FALSE)]

TrustInit ==
    /\ envJT = None
    /\ envCA = None
    /\ fileRaw \in FileValues
    /\ envCache = [loaded |-> FALSE, value |-> None]
    /\ sslCall = NoCall
    /\ fileAuth = NoAuth
    /\ authCache = [loaded |-> FALSE, value |-> NoAuth]

\* os.environ['JT_SSL_VERIFY'] = v, or its removal
SetEnvJT ==
    /\ \E v \in EnvValues : envJT' = v
    /\ UNCHANGED <<envCA, fileRaw, envCache, sslCall, fileAuth, authCache>>
    /\ UNCHANGED <<sessVars, batchVars, pageVars, moreVars, clientVars>>

\* os.environ['REQUESTS_CA_BUNDLE'] = v, or its removal
SetEnvCA ==
    /\ \E v \in BundleValues : envCA' = v
    /\ UNCHANGED <<envJT, fileRaw, envCache, sslCall, fileAuth, authCache>>
    /\ UNCHANGED <<sessVars, batchVars, pageVars, moreVars, clientVars>>

\* .jira_environment is rewritten
WriteFile ==
    /\ \E v \in FileValues : fileRaw' = v
    /\ UNCHANGED <<envJT, envCA, envCache, sslCall, fileAuth, authCache>>
    /\ UNCHANGED <<sessVars, batchVars, pageVars, moreVars, clientVars>>

\* load_jira_env.cache_clear(): every entry of the cache is dropped
ClearEnvCache ==
    /\ envCache.loaded \/ authCache.loaded
    /\ envCache' = [loaded |-> FALSE, value |-> None]
    /\ authCache' = [loaded |-> FALSE, value |-> NoAuth]
    /\ rejectedSince' = FALSE
    /\ thAfter' = [t \in DOMAIN thAfter |-> FALSE]
    /\ UNCHANGED <<envJT, envCA, fileRaw, sslCall, fileAuth>>
    /\ UNCHANGED <<sessCache, sessions, thPc, thGot, epochGot, everCleared, lastCall>>
    /\ UNCHANGED <<sessVars, batchVars, pageVars, moreVars>>

\* get_ssl_verify(): the file is consulted (and cached) only when the
\* environment variable is empty
get_ssl_verify ==
    LET file == get_jira_setting
    IN  /\ envCache' = IF Falsy(envJT) THEN [loaded |-> TRUE, value |-> file] ELSE envCache
        /\ sslCall' = [called |-> TRUE, jt |-> envJT, file |-> file, ca |-> envCA,
                       result |-> Decide(EffectiveSetting(envJT, file, envCA))]
        /\ UNCHANGED <<envJT, envCA, fileRaw, fileAuth, authCache>>
        /\ UNCHANGED <<sessVars, batchVars, pageVars, moreVars, clientVars>>

TrustNext == SetEnvJT \/ SetEnvCA \/ WriteFile \/ ClearEnvCache \/ get_ssl_verify

-----------------------------------------------------------------------------
(* jira_config.get_jira_session: the session's HTTPAdapter carries           *)
(* Retry(total=4, backoff_factor=1.0, status_forcelist=[500,502,503,504,429],*)
(* allowed_methods=[GET,POST,PUT,DELETE,PATCH], raise_on_status=False); every *)
(* other Retry parameter keeps urllib3's default. One call on the session is *)
(* urllib3's urlopen loop driven by that Retry object.                       *)

\* Retry(total=4)
RetryTotal == 4

\* Retry(status_forcelist=[500, 502, 503, 504, 429])
status_forcelist == {500, 502, 503, 504, 429}

\* mutant: allowed_methods not passed, urllib3's default (idempotent methods) applies
allowed_methods_Default == {"GET", "PUT", "DELETE", "HEAD"}

\* Retry(allowed_methods=["GET", "POST", "PUT", "DELETE", "PATCH"])
allowed_methods == {"GET", "POST", "PUT", "DELETE", "PATCH"}

\* mutant: raise_on_status left at urllib3's default
raise_on_status_Default == TRUE

\* Retry(raise_on_status=False)
raise_on_status == FALSE

\* not passed to Retry(...): urllib3's default respect_retry_after_header=True
respect_retry_after_header == TRUE

\* urllib3's Retry.RETRY_AFTER_STATUS_CODES
RETRY_AFTER_STATUS_CODES == {413, 429, 503}

\* methods callers use on the session
Methods == {"GET", "POST", "PUT", "PATCH", "DELETE", "HEAD"}

Response(status, ra) == [kind |-> "response", status |-> status, retry_after |-> ra]
Failure(kind) == [kind |-> kind, status |-> 0, retry_after |-> FALSE]

\* what a server answers: a status, with or without a Retry-After header
Responses ==
    { Response(st, FALSE) : st \in {200, 401, 404, 413, 429, 500, 502, 503, 504} }
        \cup { Response(st, TRUE) : st \in {413, 429} }

NoResult == Failure("none")

SessInit ==
    /\ reqPc = "idle"
    /\ reqMethod = "GET"
    /\ retryTotal = RetryTotal
    /\ sent = 0
    /\ hist = <<>>
    /\ reqResult = NoResult
    /\ sleeps = <<>>

\* Retry.is_retry(method, status_code, has_retry_after)
is_retry(method, status, has_retry_after, total) ==
    /\ method \in allowed_methods
    /\ \/ status \in status_forcelist
       \/ /\ total # 0
          /\ respect_retry_after_header
          /\ has_retry_after
          /\ status \in RETRY_AFTER_STATUS_CODES

\* Retry.increment() followed by Retry.is_exhausted(): the new total is negative
Exhausted(total) == total - 1 < 0

\* session.request(method, url, ...): the first request goes out
SessionRequest ==
    /\ reqPc \in {"idle", "returned", "raised"}
    /\ \E m \in Methods : reqMethod' = m
    /\ reqPc' = "sending"
    /\ retryTotal' = RetryTotal
    /\ sent' = 1
    /\ hist' = <<>>
    /\ reqResult' = NoResult
    /\ sleeps' = <<>>
    /\ UNCHANGED <<trustVars, batchVars, pageVars, moreVars, clientVars>>

\* Retry(backoff_factor=1.0)
backoff_factor == 1

\* urllib3's Retry.DEFAULT_BACKOFF_MAX, in seconds
BACKOFF_MAX == 120

\* Retry.get_backoff_time() with n entries in the history: nothing after the
\* first error, then backoff_factor * 2^(n-1), at most BACKOFF_MAX
get_backoff_time(n) ==
    IF n <= 1 THEN 0
    ELSE IF backoff_factor * 2 ^ (n - 1) > BACKOFF_MAX THEN BACKOFF_MAX
    ELSE backoff_factor * 2 ^ (n - 1)

\* Retry.sleep(response): the Retry-After header of a response is slept
\* instead of the backoff; a failed connection or read sleeps the backoff
RetrySleep(o, n) ==
    IF respect_retry_after_header /\ o.kind = "response" /\ o.retry_after
    THEN [by |-> "Retry-After", backoff |-> 0]
    ELSE [by |-> "backoff", backoff |-> get_backoff_time(n)]

\* the call goes on with one retry less: Retry.increment() has added o to the
\* history, Retry.sleep() runs and the request is sent again
Resend(o) ==
    /\ reqPc' = "sending"
    /\ retryTotal' = retryTotal - 1
    /\ sent' = sent + 1
    /\ reqResult' = NoResult
    /\ sleeps' = Append(sleeps, RetrySleep(o, Len(hist) + 1))

\* the call ends, returning a response or raising
Finish(pc, o) ==
    /\ reqPc' = pc
    /\ reqResult' = o
    /\ UNCHANGED <<retryTotal, sent, sleeps>>

\* a response arrives: retried when is_retry says so and retries are left,
\* returned otherwise (raise_on_status=False returns it on exhaustion too)
ReceiveResponse ==
    /\ reqPc = "sending"
    /\ \E o \in Responses :
          /\ hist' = Append(hist, o)
          /\ IF is_retry(reqMethod, o.status, o.retry_after, retryTotal)
             THEN IF Exhausted(retryTotal)
                  THEN Finish(IF raise_on_status THEN "raised" ELSE "returned", o)
                  ELSE Resend(o)
             ELSE Finish("returned", o)
    /\ UNCHANGED <<reqMethod, trustVars, batchVars, pageVars, moreVars, clientVars>>

\* the connection cannot be made: retried for every method while retries are left
ConnectError ==
    /\ reqPc = "sending"
    /\ LET o == Failure("ConnectionError")
       IN  /\ hist' = Append(hist, o)
           /\ IF Exhausted(retryTotal) THEN Finish("raised", o) ELSE Resend(o)
    /\ UNCHANGED <<reqMethod, trustVars, batchVars, pageVars, moreVars, clientVars>>

\* the request was sent and reading the response fails or times out: retried
\* only for the allowed methods
ReadError ==
    /\ reqPc = "sending"
    /\ LET o == Failure("ReadTimeout")
       IN  /\ hist' = Append(hist, o)
           /\ IF reqMethod \notin allowed_methods \/ Exhausted(retryTotal)
              THEN Finish("raised", o)
              ELSE Resend(o)
    /\ UNCHANGED <<reqMethod, trustVars, batchVars, pageVars, moreVars, clientVars>>

SessNext == SessionRequest \/ ReceiveResponse \/ ConnectError \/ ReadError

-----------------------------------------------------------------------------
(* jira_async.fetch_epic_batch_async *)

\* longest epic_keys list
MaxKeys == 2

\* largest max_concurrent
MaxConcurrent == 2

\* `for attempt in range(3)`
Attempts == 3

Max(S) == CHOOSE x \in S : \A y \in S : y <= x

\* epic_keys lists, keys named 1, 2, ... in order of first appearance (the code
\* treats keys as opaque), duplicates included
KeyLists ==
    { ks \in UNION { [1..n -> 1..MaxKeys] : n \in 0..MaxKeys } :
        \A i \in 1..Len(ks) : ks[i] <= Max({0} \cup { ks[j] : j \in 1..(i - 1) }) + 1 }

\* Optional[dict]: None, or the decoded issue JSON
NoneValue == [some |-> FALSE, key |-> 0]
Payload(k) == [some |-> TRUE, key |-> k]

\* what one session.get can produce for the issue k
HttpResponse(status, ctype, body) ==
    [kind |-> "response", status |-> status, ctype |-> ctype, body |-> body]
NoResp == [kind |-> "none", status |-> 0, ctype |-> "", body |-> 0]
TimeoutError == [kind |-> "TimeoutError", status |-> 0, ctype |-> "", body |-> 0]
ClientError == [kind |-> "ClientError", status |-> 0, ctype |-> "", body |-> 0]

\* body k > 0 is the JSON text of issue k, body 0 is text that is no JSON
Outcomes(k) ==
    { HttpResponse(200, "application/json", k),
      HttpResponse(200, "application/json", 0),
      HttpResponse(200, "text/html", 0),
      HttpResponse(404, "application/json", 0),
      HttpResponse(429, "application/json", 0),
      HttpResponse(500, "application/json", 0),
      TimeoutError, ClientError }

\* await resp.json(): aiohttp raises ContentTypeError (a ClientError) for another
\* content type, json.loads raises JSONDecodeError (a ValueError) for bad text
RespJson(resp) ==
    IF resp.ctype # "application/json" THEN [raises |-> "ClientError", data |-> NoneValue]
    ELSE IF resp.body = 0 THEN [raises |-> "JSONDecodeError", data |-> NoneValue]
    ELSE [raises |-> "", data |-> Payload(resp.body)]

Tasks == 1..Len(epic_keys)

BatchInit ==
    /\ batchPc = "idle"
    /\ epic_keys = <<>>
    /\ max_concurrent = 1
    /\ semaphore = 0
    /\ taskPc = <<>>
    /\ attempt = <<>>
    /\ nreq = <<>>
    /\ slept = <<>>
    /\ lastResp = <<>>
    /\ taskResult = <<>>
    /\ results = <<>>
    /\ entry = "none"
    /\ inLoop = FALSE
    /\ created = {}
    /\ ssl_verify_arg = "True"
    /\ ssl_context = "None"
    /\ reqTrust = {}
    /\ callerGot = "nothing"

\* mutant: the ids whose fetch failed are left out of the mapping
DictOf_DropFailed(keys, vals) ==
    [k \in { keys[i] : i \in { j \in 1..Len(keys) : vals[j].some } } |->
        vals[Max({ i \in 1..Len(keys) : keys[i] = k })]]

\* dict(results): a later tuple with the same key replaces an earlier one
DictOf(keys, vals) ==
    [k \in { keys[i] : i \in 1..Len(keys) } |->
        vals[Max({ i \in 1..Len(keys) : keys[i] = k })]]

\* mutant: the empty list is not told apart
NotEpicKeys_Never(ks) == FALSE

\* `not epic_keys`
NotEpicKeys(ks) == ks = <<>>

\* lists the wrappers are called with
WrapKeyLists == { ks \in KeyLists : Len(ks) <= 1 }

\* values of the ssl_verify argument
SslVerifyValues == {"True", "False", "path"}

\* lines 70-80: no context for True, one that verifies nothing for False, one
\* that trusts the CA bundle for a path
SslContext(sv) ==
    IF sv = "False" THEN "CERT_NONE"
    ELSE IF sv = "path" THEN "cafile"
    ELSE "None"

\* the values tried for a list: every request of a call is made the same
\* way, so the argument is varied on the short lists
SslVerifyFor(ks) == IF Len(ks) <= 1 THEN SslVerifyValues ELSE {"True"}

\* the argument is received; an empty list returns before line 70
SslSetup(ks) ==
    \E sv \in SslVerifyFor(ks) :
        /\ ssl_verify_arg' = sv
        /\ ssl_context' = IF NotEpicKeys(ks) THEN "None" ELSE SslContext(sv)
        /\ reqTrust' = {}

\* session.get(url, params=params, timeout=timeout) on a TCPConnector made
\* without ssl: neither receives ssl_context (lines 135-139 only `pass`), so
\* aiohttp verifies against its default context
RequestTrust(ctx) == "default"

\* the state of the tasks, one per element of the list
NewTasks(ks) ==
    /\ taskPc' = [i \in 1..Len(ks) |-> "waiting"]
    /\ attempt' = [i \in 1..Len(ks) |-> 0]
    /\ nreq' = [i \in 1..Len(ks) |-> 0]
    /\ slept' = [i \in 1..Len(ks) |-> <<>>]
    /\ lastResp' = [i \in 1..Len(ks) |-> NoResp]
    /\ taskResult' = [i \in 1..Len(ks) |-> NoneValue]

\* the coroutine up to asyncio.gather: an empty list returns {} at once;
\* otherwise the semaphore and the ClientSession are made and one task per
\* list element is handed to asyncio.gather (made: what the caller constructed)
CoroutineStart(ks, L, made) ==
    /\ epic_keys' = ks
    /\ max_concurrent' = L
    /\ NewTasks(ks)
    /\ SslSetup(ks)
    /\ results' = <<>>
    /\ IF NotEpicKeys(ks)
       THEN /\ batchPc' = "returned"
            /\ semaphore' = semaphore
            /\ created' = made
       ELSE /\ batchPc' = "running"
            /\ semaphore' = L
            /\ created' = made \cup {"Semaphore", "ClientSession"}

\* what awaiting the coroutine has given the caller when CoroutineStart is over
Awaited(ks) == IF NotEpicKeys(ks) THEN "dict" ELSE "nothing"

\* the coroutine is awaited by the caller
fetch_epic_batch_async ==
    /\ batchPc = "idle"
    /\ \E ks \in KeyLists, L \in 1..MaxConcurrent :
          /\ CoroutineStart(ks, L, {})
          /\ callerGot' = Awaited(ks)
    /\ entry' = "fetch_epic_batch_async"
    /\ inLoop' = TRUE
    /\ UNCHANGED <<trustVars, sessVars, pageVars, moreVars, clientVars>>

\* `return await fetch_epic_batch_async(...)`
fetch_issues_batch_async ==
    /\ batchPc = "idle"
    /\ \E ks \in WrapKeyLists, L \in 1..MaxConcurrent :
          /\ CoroutineStart(ks, L, {})
          /\ callerGot' = Awaited(ks)
    /\ entry' = "fetch_issues_batch_async"
    /\ inLoop' = TRUE
    /\ UNCHANGED <<trustVars, sessVars, pageVars, moreVars, clientVars>>

\* the body of fetch_epics_sync: {} for an empty list; inside a running loop
\* the coroutine is wrapped by asyncio.create_task and that Task is returned at
\* once; otherwise asyncio.run makes a loop and runs the coroutine to its end
SyncCall(ks, L, loop) ==
    /\ inLoop' = loop
    /\ IF NotEpicKeys(ks)
       THEN /\ epic_keys' = ks
            /\ max_concurrent' = L
            /\ NewTasks(ks)
            /\ SslSetup(ks)
            /\ batchPc' = "returned"
            /\ results' = <<>>
            /\ callerGot' = "dict"
            /\ UNCHANGED <<semaphore, created>>
       ELSE IF loop
            THEN /\ CoroutineStart(ks, L, {})
                 /\ callerGot' = "Task"
            ELSE /\ CoroutineStart(ks, L, {"event loop"})
                 /\ callerGot' = Awaited(ks)

fetch_epics_sync ==
    /\ batchPc = "idle"
    /\ \E ks \in WrapKeyLists, L \in 1..MaxConcurrent, loop \in BOOLEAN :
          SyncCall(ks, L, loop)
    /\ entry' = "fetch_epics_sync"
    /\ UNCHANGED <<trustVars, sessVars, pageVars, moreVars, clientVars>>

\* `return fetch_epics_sync(...)`
fetch_issues_sync ==
    /\ batchPc = "idle"
    /\ \E ks \in WrapKeyLists, L \in 1..MaxConcurrent, loop \in BOOLEAN :
          SyncCall(ks, L, loop)
    /\ entry' = "fetch_issues_sync"
    /\ UNCHANGED <<trustVars, sessVars, pageVars, moreVars, clientVars>>

\* mutant: the task does not wait for the semaphore
Acquire_NoGate ==
    /\ batchPc \in {"running", "raised"}
    /\ \E i \in Tasks :
          /\ taskPc[i] = "waiting"
          /\ semaphore' = semaphore - 1
          /\ taskPc' = [taskPc EXCEPT ![i] = "request"]
          /\ nreq' = [nreq EXCEPT ![i] = 1]
          /\ reqTrust' = reqTrust \cup {RequestTrust(ssl_context)}
    /\ UNCHANGED <<attempt, slept, lastResp, taskResult>>
    /\ UNCHANGED <<batchPc, epic_keys, max_concurrent, results, entry, inLoop, created, ssl_verify_arg, ssl_context,
                 callerGot, trustVars, sessVars, pageVars, moreVars, clientVars>>

\* `async with semaphore`, then the first session.get of the task
Acquire ==
    /\ batchPc \in {"running", "raised"}
    /\ \E i \in Tasks :
          /\ taskPc[i] = "waiting"
          /\ semaphore > 0
          /\ semaphore' = semaphore - 1
          /\ taskPc' = [taskPc EXCEPT ![i] = "request"]
          /\ nreq' = [nreq EXCEPT ![i] = 1]
          /\ reqTrust' = reqTrust \cup {RequestTrust(ssl_context)}
    /\ UNCHANGED <<attempt, slept, lastResp, taskResult>>
    /\ UNCHANGED <<batchPc, epic_keys, max_concurrent, results, entry, inLoop, created, ssl_verify_arg, ssl_context,
                 callerGot, trustVars, sessVars, pageVars, moreVars, clientVars>>

\* `return (key, value)`: leaves `async with semaphore`
TaskReturn(i, value) ==
    /\ taskPc' = [taskPc EXCEPT ![i] = "done"]
    /\ taskResult' = [taskResult EXCEPT ![i] = value]
    /\ semaphore' = semaphore + 1
    /\ UNCHANGED <<attempt, nreq, slept>>

\* an exception no except clause catches leaves `async with semaphore` too
TaskRaise(i) ==
    /\ taskPc' = [taskPc EXCEPT ![i] = "raised"]
    /\ semaphore' = semaphore + 1
    /\ UNCHANGED <<attempt, nreq, slept, taskResult>>

\* mutant: the backoff grows linearly, 2 * attempt
RetryOrGiveUp_Linear(i) ==
    IF attempt[i] < 2
    THEN /\ taskPc' = [taskPc EXCEPT ![i] = "sleep"]
         /\ slept' = [slept EXCEPT ![i] = Append(@, 2 * attempt[i])]
         /\ UNCHANGED <<semaphore, attempt, nreq, taskResult>>
    ELSE TaskReturn(i, NoneValue)

\* `if attempt < 2: await asyncio.sleep(2 ** attempt); continue`
RetryOrGiveUp(i) ==
    IF attempt[i] < 2
    THEN /\ taskPc' = [taskPc EXCEPT ![i] = "sleep"]
         /\ slept' = [slept EXCEPT ![i] = Append(@, 2 ^ attempt[i])]
         /\ UNCHANGED <<semaphore, attempt, nreq, taskResult>>
    ELSE TaskReturn(i, NoneValue)

\* mutant: a 4xx response is retried like a 5xx
Handle_Retry4xx(i, r) ==
    IF r.kind = "TimeoutError" \/ r.kind = "ClientError" THEN RetryOrGiveUp(i)
    ELSE IF r.status = 200
         THEN LET j == RespJson(r)
              IN  IF j.raises = "" THEN TaskReturn(i, j.data)
                  ELSE IF j.raises = "ClientError" THEN RetryOrGiveUp(i)
                  ELSE TaskRaise(i)
    ELSE IF r.status >= 400 /\ attempt[i] < 2
         THEN RetryOrGiveUp(i)
    ELSE TaskReturn(i, NoneValue)

\* the body of the loop once session.get has produced r (lines 99-121)
Handle(i, r) ==
    IF r.kind = "TimeoutError" \/ r.kind = "ClientError" THEN RetryOrGiveUp(i)
    ELSE IF r.status = 200
         THEN LET j == RespJson(r)
              IN  IF j.raises = "" THEN TaskReturn(i, j.data)
                  ELSE IF j.raises = "ClientError" THEN RetryOrGiveUp(i)
                  ELSE TaskRaise(i)
    ELSE IF r.status >= 500 /\ attempt[i] < 2
         THEN RetryOrGiveUp(i)
    ELSE TaskReturn(i, NoneValue)

\* the request in flight of a task ends: with a response, a timeout or a
\* network error
Respond ==
    /\ batchPc \in {"running", "raised"}
    /\ \E i \in Tasks :
          /\ taskPc[i] = "request"
          /\ \E r \in Outcomes(epic_keys[i]) :
                /\ lastResp' = [lastResp EXCEPT ![i] = r]
                /\ Handle(i, r)
    /\ UNCHANGED reqTrust
    /\ UNCHANGED <<batchPc, epic_keys, max_concurrent, results, entry, inLoop, created, ssl_verify_arg, ssl_context,
                 callerGot, trustVars, sessVars, pageVars, moreVars, clientVars>>

\* asyncio.sleep is over and `continue` moves to the next iteration, which calls
\* session.get again; were range(3) used up, line 124 would return None
Wake ==
    /\ batchPc \in {"running", "raised"}
    /\ \E i \in Tasks :
          /\ taskPc[i] = "sleep"
          /\ IF attempt[i] + 1 < Attempts
             THEN /\ attempt' = [attempt EXCEPT ![i] = @ + 1]
                  /\ nreq' = [nreq EXCEPT ![i] = @ + 1]
                  /\ taskPc' = [taskPc EXCEPT ![i] = "request"]
                  /\ lastResp' = [lastResp EXCEPT ![i] = NoResp]
                  /\ reqTrust' = reqTrust \cup {RequestTrust(ssl_context)}
                  /\ UNCHANGED <<semaphore, slept, taskResult>>
             ELSE /\ TaskReturn(i, NoneValue)
                  /\ UNCHANGED <<lastResp, reqTrust>>
    /\ UNCHANGED <<batchPc, epic_keys, max_concurrent, results, entry, inLoop, created, ssl_verify_arg, ssl_context,
                 callerGot, trustVars, sessVars, pageVars, moreVars, clientVars>>

\* mutant: the call returns once every distinct id has one finished task
BatchReturn_OnePerKey ==
    /\ batchPc = "running"
    /\ \A k \in { epic_keys[i] : i \in Tasks } :
          \E i \in Tasks : epic_keys[i] = k /\ taskPc[i] = "done"
    /\ batchPc' = "returned"
    /\ results' = DictOf(epic_keys, taskResult)
    /\ callerGot' = IF callerGot = "Task" THEN "Task" ELSE "dict"
    /\ UNCHANGED reqTrust
    /\ UNCHANGED <<epic_keys, max_concurrent, semaphore, taskPc, attempt, nreq, slept,
                   lastResp, taskResult, entry, inLoop, created, ssl_verify_arg, ssl_context, trustVars, sessVars,
                   pageVars, moreVars, clientVars>>

\* asyncio.gather has every result: `return dict(results)`
BatchReturn ==
    /\ batchPc = "running"
    /\ \A i \in Tasks : taskPc[i] = "done"
    /\ batchPc' = "returned"
    /\ results' = DictOf(epic_keys, taskResult)
    /\ callerGot' = IF callerGot = "Task" THEN "Task" ELSE "dict"
    /\ UNCHANGED reqTrust
    /\ UNCHANGED <<epic_keys, max_concurrent, semaphore, taskPc, attempt, nreq, slept,
                   lastResp, taskResult, entry, inLoop, created, ssl_verify_arg, ssl_context, trustVars, sessVars,
                   pageVars, moreVars, clientVars>>

\* the tasks that are inside `async with semaphore`
Holders == { i \in Tasks : taskPc[i] \in {"request", "sleep"} }

\* the tasks that have not finished
Pending == { i \in Tasks : taskPc[i] \in {"waiting", "request", "sleep"} }

\* asyncio.gather passes the first exception of a task on to the caller
BatchRaise ==
    /\ batchPc = "running"
    /\ \E i \in Tasks : taskPc[i] = "raised"
    /\ batchPc' = "raised"
    /\ callerGot' = IF callerGot = "Task" THEN "Task" ELSE "exception"
    /\ UNCHANGED reqTrust
    /\ UNCHANGED <<epic_keys, max_concurrent, semaphore, taskPc, attempt, nreq, slept,
                   lastResp, taskResult, results, entry, inLoop, created, ssl_verify_arg,
                   ssl_context, trustVars, sessVars, pageVars, moreVars, clientVars>>

BatchNext ==
    \/ fetch_epic_batch_async \/ fetch_issues_batch_async
    \/ fetch_epics_sync \/ fetch_issues_sync
    \/ Acquire \/ Respond \/ Wake \/ BatchReturn \/ BatchRaise

-----------------------------------------------------------------------------
(* The pagination loops: jpt.get_issues, jira_metrics.get_sprint_issues and   *)
(* the epic loop of jira_ready_sanity_check.get_ready_items                   *)

\* largest total of a server whose pages may have any length
MaxTotal == 5

\* largest page_size argument of get_sprint_issues
MaxPageSize == 3

\* "maxResults": 50
DefaultPageSize == 50

\* "total": 75 of the two-page server of test_get_issues_with_pagination
TestTotal == 75

Min(a, b) == IF a <= b THEN a ELSE b

\* ceil(a / b)
CeilDiv(a, b) == (a + b - 1) \div b

\* pageReqs records this many requests at most
MaxLogged == MaxTotal + 2

\* the loops that add the fixed page size to start_at; the others add the
\* number of issues received
FixedStep == {"get_issues", "get_sprint_issues"}

\* the startAt values a loop can ask for below a total T
Offsets(fn, T, ps) ==
    IF fn \in FixedStep THEN { s \in 0..(T - 1) : s % ps = 0 } ELSE 0..(T - 1)

\* the full page at startAt s
FullPage(T, ps, s) == Min(ps, T - s)

\* page lengths a server may answer at s: the full page, or a short one
ShortOrFull(T, ps, s) ==
    { c \in 0..FullPage(T, ps, s) : c <= MaxTotal \/ c = FullPage(T, ps, s) }

\* the servers with total T: every startAt below T has its fixed page
Servers(fn, T, ps) ==
    { f \in [Offsets(fn, T, ps) -> 0..Min(ps, T)] :
        \A s \in Offsets(fn, T, ps) : f[s] \in ShortOrFull(T, ps, s) }

\* data["issues"] of the response to startAt s: nothing at or beyond the total
ServerPage(s) == IF s \in DOMAIN serves THEN serves[s] ELSE 0

PageInit ==
    /\ pagePc = "idle"
    /\ pageFn = "none"
    /\ page_size = DefaultPageSize
    /\ dataTotal = 0
    /\ serves = <<>>
    /\ start_at = 0
    /\ issues = <<>>
    /\ pageReqs = <<>>
    /\ pageTick = 0

\* `issues = []; start_at = 0` against a server
StartLoop(fn, ps, T) ==
    /\ pagePc' = "fetching"
    /\ pageFn' = fn
    /\ page_size' = ps
    /\ dataTotal' = T
    /\ serves' \in Servers(fn, T, ps)
    /\ start_at' = 0
    /\ issues' = <<>>
    /\ pageReqs' = <<>>
    /\ pageTick' = 0

\* jpt.get_issues(sprint_id): maxResults is the literal 50
get_issues ==
    /\ pagePc = "idle"
    /\ \E T \in (0..MaxTotal) \cup {TestTotal} : StartLoop("get_issues", DefaultPageSize, T)
    /\ UNCHANGED <<trustVars, sessVars, batchVars, clientVars, moreVars>>

\* jira_metrics.get_sprint_issues(session, jira_url, sprint_id, page_size)
get_sprint_issues ==
    /\ pagePc = "idle"
    /\ \E T \in 0..MaxTotal, ps \in 1..MaxPageSize : StartLoop("get_sprint_issues", ps, T)
    /\ UNCHANGED <<trustVars, sessVars, batchVars, clientVars, moreVars>>

\* the epic loop of get_ready_items (get_to_refine_issues has the same loop):
\* jira_search(..., start_at=start_at, max_results=50)
get_ready_items ==
    /\ pagePc = "idle"
    /\ \E T \in 0..MaxTotal : StartLoop("get_ready_items", DefaultPageSize, T)
    /\ UNCHANGED <<trustVars, sessVars, batchVars, clientVars, moreVars>>

\* mutant: the loop goes on when the page ends exactly at the total
LastPage_Strict(s, step, T) == s + step > T

\* `if start_at + page_size >= data["total"]: break`
LastPage(s, step, T) == s + step >= T

\* one iteration of `while True`: the request for startAt = start_at, the
\* extension of issues by the page, the test for the last page and the advance
FetchPage ==
    /\ pagePc = "fetching"
    /\ LET n == ServerPage(start_at)
           batch == [i \in 1..n |-> start_at + i]
           step == IF pageFn \in FixedStep THEN page_size ELSE n
       IN  /\ issues' = issues \o batch
           /\ pageReqs' = IF Len(pageReqs) < MaxLogged
                           THEN Append(pageReqs, start_at) ELSE pageReqs
           /\ pageTick' = 1 - pageTick
           /\ IF LastPage(start_at, step, dataTotal)
              THEN /\ pagePc' = "done"
                   /\ start_at' = start_at
              ELSE /\ pagePc' = "fetching"
                   /\ start_at' = start_at + step
    /\ UNCHANGED <<pageFn, page_size, dataTotal, serves, trustVars, sessVars, batchVars,
                   clientVars, moreVars>>

PageNext == get_issues \/ get_sprint_issues \/ get_ready_items \/ FetchPage

-----------------------------------------------------------------------------
(* jira_config.get_jira_session under functools.lru_cache(maxsize=1): the    *)
(* wrapper looks the key up, calls the function without holding a lock on a  *)
(* miss, and stores the result unless the key has been stored meanwhile.     *)

\* sessions one run constructs at most
MaxSessions == 2

\* the threads of the process that use the session
Threads == {"t1", "t2"}

\* values given to JT_SSL_VERIFY while sessions are in use
ClientEnvValues == { None, <<"f","a","l","s","e">> }

\* contents of .jira_environment: (JT_JIRA_USERNAME, JT_JIRA_PASSWORD) and
\* the text after "JT_SSL_VERIFY="
FileContents ==
    { [auth |-> NoAuth, raw |-> None],
      [auth |-> <<"u", "p">>, raw |-> <<"/","c">>],
      [auth |-> <<"u", "p">>, raw |-> <<"o","f","f">>] }

\* the exceptions get_ssl_verify raises
Rejections == {"ValueError", "RuntimeError"}

\* get_ssl_verify() would raise for the environment and the file as they are now
FreshRejected == Decide(EffectiveSetting(envJT, ReadFile, envCA)).kind \in Rejections

NoLastCall == [outcome |-> "none", after |-> FALSE, rejected |-> FALSE, stored |-> FALSE]

\* what is kept of a completed call: how it ended, whether it began after a
\* raise, and then whether the configuration was rejected as it ended; whether
\* the call put a session into the cache
CallRecord(outcome, after, stored) ==
    [outcome |-> outcome, after |-> after,
     rejected |-> after /\ FreshRejected,
     stored |-> stored]

ClientInit ==
    /\ sessCache = 0
    /\ sessions = <<>>
    /\ thPc = [t \in Threads |-> "idle"]
    /\ thGot = [t \in Threads |-> 0]
    /\ epochGot = {}
    /\ everCleared = FALSE
    /\ rejectedSince = FALSE
    /\ thAfter = [t \in Threads |-> FALSE]
    /\ lastCall = NoLastCall

Building == { t \in Threads : thPc[t] = "building" }

\* a thread calls get_jira_session(): a hit returns the cached session, a miss
\* enters the function body
CallSession ==
    /\ \E t \in Threads :
          /\ thPc[t] = "idle"
          /\ IF sessCache # 0
             THEN /\ thGot' = [thGot EXCEPT ![t] = sessCache]
                  /\ epochGot' = epochGot \cup {sessCache}
                  /\ lastCall' = CallRecord("session", rejectedSince, FALSE)
                  /\ UNCHANGED <<thPc, thAfter>>
             ELSE /\ Len(sessions) + Cardinality(Building) < MaxSessions
                  /\ thPc' = [thPc EXCEPT ![t] = "building"]
                  /\ thAfter' = [thAfter EXCEPT ![t] = rejectedSince]
                  /\ UNCHANGED <<thGot, epochGot, lastCall>>
    /\ UNCHANGED <<sessCache, sessions, everCleared, rejectedSince>>
    /\ UNCHANGED <<trustVars, sessVars, batchVars, pageVars, moreVars>>

\* the body of get_jira_session and the wrapper's store: Retry and adapter,
\* auth from load_jira_env(), verify from get_ssl_verify(); the result is
\* stored unless another call has stored one meanwhile, and the caller gets
\* the session it built; an exception of get_ssl_verify leaves the cache as
\* it is
BuildSession ==
    /\ \E t \in Threads :
          /\ thPc[t] = "building"
          /\ LET env == IF authCache.loaded THEN authCache.value ELSE fileAuth
                 file == get_jira_setting
                 v == Decide(EffectiveSetting(envJT, file, envCA))
                 id == Len(sessions) + 1
             IN  /\ authCache' = [loaded |-> TRUE, value |-> env]
                 /\ envCache' = IF Falsy(envJT) THEN [loaded |-> TRUE, value |-> file]
                                 ELSE envCache
                 /\ sslCall' = [called |-> TRUE, jt |-> envJT, file |-> file, ca |-> envCA,
                                result |-> v]
                 /\ thPc' = [thPc EXCEPT ![t] = "idle"]
                 /\ lastCall' = CallRecord(IF v.kind \in Rejections THEN "raised"
                                            ELSE "session", thAfter[t],
                                            v.kind \notin Rejections /\ sessCache = 0)
                 /\ IF v.kind \in Rejections
                    THEN /\ thGot' = [thGot EXCEPT ![t] = -1]
                         /\ rejectedSince' = TRUE
                         /\ UNCHANGED <<sessions, sessCache, epochGot>>
                    ELSE /\ sessions' = Append(sessions,
                                [auth |-> env, verify |-> v, retry |-> RetryTotal,
                                 fileAuthThen |-> fileAuth, jtThen |-> envJT,
                                 verifyThen |-> Decide(EffectiveSetting(envJT, ReadFile, envCA))])
                         /\ sessCache' = IF sessCache = 0 THEN id ELSE sessCache
                         /\ thGot' = [thGot EXCEPT ![t] = id]
                         /\ epochGot' = epochGot \cup {id}
                         /\ UNCHANGED rejectedSince
    /\ UNCHANGED <<envJT, envCA, fileRaw, fileAuth, everCleared, thAfter>>
    /\ UNCHANGED <<sessVars, batchVars, pageVars, moreVars>>

\* get_jira_session.cache_clear()
cache_clear ==
    /\ sessCache # 0
    /\ sessCache' = 0
    /\ epochGot' = {}
    /\ everCleared' = TRUE
    /\ rejectedSince' = FALSE
    /\ thAfter' = [t \in Threads |-> FALSE]
    /\ UNCHANGED <<sessions, thPc, thGot, lastCall>>
    /\ UNCHANGED <<trustVars, sessVars, batchVars, pageVars, moreVars>>

\* the process environment changes
ChangeEnv ==
    /\ \E v \in ClientEnvValues : envJT' = v
    /\ UNCHANGED <<envCA, fileRaw, envCache, sslCall, fileAuth, authCache>>
    /\ UNCHANGED <<sessVars, batchVars, pageVars, moreVars, clientVars>>

\* .jira_environment is rewritten
ChangeFile ==
    /\ \E f \in FileContents :
          /\ fileAuth' = f.auth
          /\ fileRaw' = f.raw
    /\ UNCHANGED <<envJT, envCA, envCache, sslCall, authCache>>
    /\ UNCHANGED <<sessVars, batchVars, pageVars, moreVars, clientVars>>

ClientNext ==
    \/ CallSession \/ BuildSession \/ cache_clear
    \/ ChangeEnv \/ ChangeFile \/ ClearEnvCache

-----------------------------------------------------------------------------
(* jpt.jira_get: the retrying GET that jpt.py installs as requests.get *)

\* default of max_retries
DefaultMaxRetries == 4

\* largest backoff argument
MaxBackoff == 2

\* what one sess.get can produce: a response, or a
\* requests.exceptions.RequestException
GetResponse(status) == [kind |-> "response", status |-> status]
GetException(name) == [kind |-> name, status |-> 0]
GetOutcomes ==
    { GetResponse(st) : st \in {200, 404, 499, 500, 599, 600} }
        \cup { GetException("ConnectionError"), GetException("Timeout") }

NoGetResult == [kind |-> "none", status |-> 0]

GetInit ==
    /\ getPc = "idle"
    /\ max_retries = DefaultMaxRetries
    /\ backoff = 1
    /\ getAttempt = 0
    /\ getSent = 0
    /\ getSleeps = <<>>
    /\ getHist = <<>>
    /\ getResult = NoGetResult


\* `for attempt in range(1, max_retries + 1)`: the next iteration calls
\* sess.get; when the range is used up, line 71 raises RuntimeError
Iterate(a, m) ==
    IF a <= m
    THEN /\ getPc' = "sending"
         /\ getAttempt' = a
         /\ getSent' = getSent + 1
         /\ getResult' = NoGetResult
    ELSE /\ getPc' = "raised"
         /\ getAttempt' = getAttempt
         /\ getSent' = getSent
         /\ getResult' = GetException("RuntimeError")

\* jira_get(url, params, max_retries, backoff): up to the first sess.get
jira_get ==
    /\ getPc = "idle"
    /\ \E m \in 1..DefaultMaxRetries, b \in 1..MaxBackoff :
          /\ max_retries' = m
          /\ backoff' = b
          /\ Iterate(1, m)
    /\ getSleeps' = <<>>
    /\ getHist' = <<>>
    /\ UNCHANGED <<trustVars, sessVars, batchVars, pageVars, clientVars, metaVars, logVars>>

\* `500 <= resp.status_code < 600`
IsServerError(status) == 500 <= status /\ status < 600

\* mutant: the last attempt is not told apart
IsLastAttempt_Never(a, m) == FALSE

\* `attempt == max_retries`
IsLastAttempt(a, m) == a = m

\* the body of the loop once sess.get has produced o: a response that is no
\* 5xx is returned; a 5xx or a RequestException on the last attempt raises
\* (resp.raise_for_status() raises HTTPError, which the except clause logs and
\* re-raises), on another attempt time.sleep(backoff * attempt) follows
GetAnswer ==
    /\ getPc = "sending"
    /\ \E o \in GetOutcomes :
          /\ getHist' = Append(getHist, o)
          /\ IF o.kind = "response" /\ ~IsServerError(o.status)
             THEN /\ getPc' = "returned"
                  /\ getResult' = o
                  /\ UNCHANGED getSleeps
             ELSE IF IsLastAttempt(getAttempt, max_retries)
             THEN /\ getPc' = "raised"
                  /\ getResult' = IF o.kind = "response" THEN GetException("HTTPError")
                                   ELSE o
                  /\ UNCHANGED getSleeps
             ELSE /\ getPc' = "sleeping"
                  /\ getSleeps' = Append(getSleeps, backoff * getAttempt)
                  /\ UNCHANGED getResult
    /\ UNCHANGED <<max_retries, backoff, getAttempt, getSent>>
    /\ UNCHANGED <<trustVars, sessVars, batchVars, pageVars, clientVars, metaVars, logVars>>

\* time.sleep is over: `continue`, or the end of the except clause, moves to
\* the next iteration
GetWake ==
    /\ getPc = "sleeping"
    /\ Iterate(getAttempt + 1, max_retries)
    /\ UNCHANGED <<max_retries, backoff, getSleeps, getHist>>
    /\ UNCHANGED <<trustVars, sessVars, batchVars, pageVars, clientVars, metaVars, logVars>>

GetNext == jira_get \/ GetAnswer \/ GetWake

-----------------------------------------------------------------------------
(* jira_performance.get_cached_sprint_metadata under functools.lru_cache *)

\* sprint ids in use
MaxSprints == 2

\* session.get calls one run makes at most
MaxFetches == 2

Sprints == 1..MaxSprints

\* how the call writes session_id: left out, or passed as "default"
SessionArgs == {"omitted", "default"}

\* lru_cache keys a call by its arguments as passed (jira_url is the same in
\* every call)
CacheKeys == Sprints \X SessionArgs

\* the (jira_url, sprint_id, session_id) a call stands for
LogicalKey(c) == <<c[1], "default">>

NoData == [sprint |-> 0, ver |-> 0]
SprintData(s) == [sprint |-> s, ver |-> sprintVer[s]]

\* a miss: get_jira_session() raises; or session.get returns 200 with JSON;
\* or resp.raise_for_status() raises, session.get raises, resp.json() raises
MissOutcomes == {"NoSession", "ok", "HTTPError", "ConnectionError", "JSONDecodeError"}

NoMetaCall == [key |-> <<0, "omitted">>, outcome |-> "none", data |-> NoData, issued |-> FALSE]

MetaInit ==
    /\ metaCache = [c \in CacheKeys |-> NoData]
    /\ metaReqs = [c \in CacheKeys |-> 0]
    /\ metaOk = [c \in CacheKeys |-> 0]
    /\ metaFailed = [c \in CacheKeys |-> 0]
    /\ metaLast = NoMetaCall
    /\ metaCleared = FALSE
    /\ sprintVer = [s \in Sprints |-> 0]

RECURSIVE SumOver(_, _)
SumOver(f, S) ==
    IF S = {} THEN 0
    ELSE LET x == CHOOSE y \in S : TRUE IN f[x] + SumOver(f, S \ {x})

\* session.get calls since the last clear
TotalFetches == SumOver(metaReqs, CacheKeys)

\* mutant: the wrapper stores whatever the call ended with
Stores_Always(o) == TRUE

\* lru_cache stores what the function returns; an exception passes through
Stores(o) == o = "ok"

\* the body, run on a miss, ending with outcome o
Fetch(c, o) ==
    IF o = "NoSession"
    THEN /\ metaLast' = [key |-> c, outcome |-> "raised", data |-> NoData, issued |-> FALSE]
         /\ UNCHANGED <<metaCache, metaReqs, metaOk, metaFailed>>
    ELSE /\ metaReqs' = [metaReqs EXCEPT ![c] = @ + 1]
         /\ metaCache' = [metaCache EXCEPT ![c] = IF Stores(o) THEN SprintData(c[1]) ELSE @]
         /\ IF o = "ok"
            THEN /\ metaOk' = [metaOk EXCEPT ![c] = @ + 1]
                 /\ metaLast' = [key |-> c, outcome |-> "fetched",
                                 data |-> SprintData(c[1]), issued |-> TRUE]
                 /\ UNCHANGED metaFailed
            ELSE /\ metaFailed' = [metaFailed EXCEPT ![c] = @ + 1]
                 /\ metaLast' = [key |-> c, outcome |-> "raised", data |-> NoData,
                                 issued |-> TRUE]
                 /\ UNCHANGED metaOk

\* get_cached_sprint_metadata(jira_url, sprint_id[, session_id]): a hit returns
\* the stored dict, a miss runs the body
get_cached_sprint_metadata ==
    /\ \E c \in CacheKeys :
          IF metaCache[c] # NoData
          THEN /\ metaLast' = [key |-> c, outcome |-> "hit", data |-> metaCache[c],
                               issued |-> FALSE]
               /\ UNCHANGED <<metaCache, metaReqs, metaOk, metaFailed>>
          ELSE /\ TotalFetches < MaxFetches
               /\ \E o \in MissOutcomes : Fetch(c, o)
    /\ UNCHANGED <<metaCleared, sprintVer>>
    /\ UNCHANGED <<trustVars, sessVars, batchVars, pageVars, clientVars, getVars, logVars>>

\* clear_sprint_cache(): get_cached_sprint_metadata.cache_clear()
clear_sprint_cache ==
    /\ metaCache' = [c \in CacheKeys |-> NoData]
    /\ metaReqs' = [c \in CacheKeys |-> 0]
    /\ metaOk' = [c \in CacheKeys |-> 0]
    /\ metaFailed' = [c \in CacheKeys |-> 0]
    /\ metaCleared' = TRUE
    /\ metaLast' = NoMetaCall
    /\ UNCHANGED sprintVer
    /\ UNCHANGED <<trustVars, sessVars, batchVars, pageVars, clientVars, getVars, logVars>>

\* the sprint is edited in Jira
SprintEdited ==
    /\ \E s \in Sprints : sprintVer' = [sprintVer EXCEPT ![s] = 1 - @]
    /\ UNCHANGED <<metaCache, metaReqs, metaOk, metaFailed, metaLast, metaCleared>>
    /\ UNCHANGED <<trustVars, sessVars, batchVars, pageVars, clientVars, getVars, logVars>>

MetaNext == get_cached_sprint_metadata \/ clear_sprint_cache \/ SprintEdited

-----------------------------------------------------------------------------
(* jira_security.SensitiveDataFilter *)

\* values of a log record: a str is a sequence of words
IntValue(n) == [type |-> "int", int |-> n, words |-> <<>>]
StrValue(ws) == [type |-> "str", int |-> 0, words |-> ws]

\* words API_TOKEN_PATTERN, EMAIL_PATTERN and LONG_ALPHANUM_PATTERN match
ApiTokens == {"ATATT3xFf"}
Emails == {"po@example.com"}
LongAlnums == {"abcdefghijklmnopqrstuvwx"}

\* str(v)
Str(v) ==
    IF v.type = "str" THEN v
    ELSE StrValue(<<IF v.int = 42 THEN "42" ELSE IF v.int = 0 THEN "0" ELSE "int">>)

RedactWord(w) ==
    IF w \in ApiTokens THEN "[REDACTED-TOKEN]"
    ELSE IF w \in Emails THEN "[REDACTED-EMAIL]"
    ELSE IF w \in LongAlnums THEN "[REDACTED]"
    ELSE w

\* _redact(text): a value that is no str is returned as it is
Redact(v) ==
    IF v.type # "str" THEN v
    ELSE StrValue([i \in 1..Len(v.words) |-> RedactWord(v.words[i])])

\* msg and argument values of the records made
LogValues ==
    { IntValue(42), IntValue(0), StrValue(<<"active">>),
      StrValue(<<"token", "ATATT3xFf">>), StrValue(<<"po@example.com">>),
      StrValue(<<"abcdefghijklmnopqrstuvwx">>) }

\* longest args
MaxArgs == 2

\* record.args: None, a tuple, or the single dict of a %(name)s message (its
\* values are listed in key order)
NoArgs == [kind |-> "None", items |-> <<>>]
LogArgs ==
    {NoArgs} \cup
    { [kind |-> k, items |-> it] :
        k \in {"tuple", "dict"},
        it \in UNION { [1..n -> LogValues] : n \in 1..MaxArgs } }

LogInit ==
    /\ logPc = "none"
    /\ recMsg = StrValue(<<>>)
    /\ recArgs = NoArgs
    /\ recMade = [msg |-> StrValue(<<>>), args |-> NoArgs]
    /\ filterRet = FALSE

\* logging.LogRecord(..., msg=msg, args=args, ...)
LogRecord ==
    /\ logPc = "none"
    /\ \E m \in LogValues, a \in LogArgs :
          /\ recMsg' = m
          /\ recArgs' = a
          /\ recMade' = [msg |-> m, args |-> a]
    /\ logPc' = "made"
    /\ UNCHANGED filterRet
    /\ UNCHANGED <<trustVars, sessVars, batchVars, pageVars, clientVars, getVars, metaVars>>

\* SensitiveDataFilter.filter(record): msg is redacted when it is a str; every
\* value of args is replaced by self._redact(str(value)); True is returned
filter ==
    /\ logPc = "made"
    /\ recMsg' = IF recMsg.type = "str" THEN Redact(recMsg) ELSE recMsg
    /\ recArgs' = IF recArgs.items # <<>> /\ recArgs.kind \in {"dict", "tuple"}
                  THEN [kind |-> recArgs.kind,
                        items |-> [i \in 1..Len(recArgs.items) |->
                                      Redact(Str(recArgs.items[i]))]]
                  ELSE recArgs
    /\ filterRet' = TRUE
    /\ logPc' = "filtered"
    /\ UNCHANGED recMade
    /\ UNCHANGED <<trustVars, sessVars, batchVars, pageVars, clientVars, getVars, metaVars>>

LogNext == LogRecord \/ filter

MoreInit == GetInit /\ MetaInit /\ LogInit

-----------------------------------------------------------------------------
(* Specifications *)

InitTrust == TrustInit /\ SessInit /\ BatchInit /\ PageInit /\ ClientInit /\ MoreInit

SpecTrust == InitTrust /\ [][TrustNext]_vars

InitSession == TrustInit /\ fileRaw = None /\ SessInit /\ BatchInit /\ PageInit /\ ClientInit /\ MoreInit

SpecSession == InitSession /\ [][SessNext]_vars

InitBatch == TrustInit /\ fileRaw = None /\ SessInit /\ BatchInit /\ PageInit /\ ClientInit /\ MoreInit

SpecBatch == InitBatch /\ [][BatchNext]_vars

InitPage == TrustInit /\ fileRaw = None /\ SessInit /\ BatchInit /\ PageInit /\ ClientInit /\ MoreInit

InitClient == TrustInit /\ fileRaw = None /\ SessInit /\ BatchInit /\ PageInit /\ ClientInit /\ MoreInit

SpecClient == InitClient /\ [][ClientNext]_vars

InitGet == TrustInit /\ fileRaw = None /\ SessInit /\ BatchInit /\ PageInit /\ ClientInit /\ MoreInit

SpecGet == InitGet /\ [][GetNext]_vars

InitMeta == TrustInit /\ fileRaw = None /\ SessInit /\ BatchInit /\ PageInit /\ ClientInit /\ MoreInit

SpecMeta == InitMeta /\ [][MetaNext]_vars

InitLog == TrustInit /\ fileRaw = None /\ SessInit /\ BatchInit /\ PageInit /\ ClientInit /\ MoreInit

SpecLog == InitLog /\ [][LogNext]_vars

\* a loop that can make its next request makes it
SpecPage == InitPage /\ [][PageNext]_vars /\ WF_vars(FetchPage)

-----------------------------------------------------------------------------
(* Claims about trust resolution, checked under SpecTrust *)

\* the setting of the highest-precedence non-empty source of the last call
\* (None when every source is empty)
CalledSetting ==
    IF ~Falsy(sslCall.jt) THEN sslCall.jt
    ELSE IF ~Falsy(sslCall.file) THEN sslCall.file
    ELSE IF ~Falsy(sslCall.ca) THEN sslCall.ca
    ELSE None

IsFalseToken(v) == v # None /\ Lower(Strip(v)) \in FalseTokens
IsTrueToken(v) == v # None /\ Lower(Strip(v)) \in TrueTokens

C5_Precedence ==
    sslCall.called =>
        sslCall.result =
            IF ~Falsy(sslCall.jt) THEN Decide(sslCall.jt)
            ELSE IF ~Falsy(sslCall.file) THEN Decide(sslCall.file)
            ELSE IF ~Falsy(sslCall.ca) THEN Decide(sslCall.ca)
            ELSE ResTrue(FALSE)

\* the file holds a rejected value, the bundle variable an existing path, and
\* the environment's "true" decides
C5_Witness ==
    /\ sslCall.called
    /\ sslCall.jt = <<"t","r","u","e">>
    /\ IsFalseToken(sslCall.file)
    /\ sslCall.ca = <<"/","c">>
    /\ sslCall.result = ResTrue(FALSE)

\* the setting names a path, and no file exists there
NamesMissingPath(v) ==
    /\ v # None
    /\ ~IsFalseToken(v)
    /\ ~IsTrueToken(v)
    /\ LET ex == ExpandUser(v)
           p  == IF IsAbsolute(ex.path) THEN ex.path ELSE BASE_DIR \o <<"/">> \o ex.path
       IN  ~ex.ok \/ ~PathExists(p)

\* C6: when the effective setting is no boolean token and names a path that
\* does not exist, get_ssl_verify() warns and returns True; it does not raise
\* and does not return the path.
C6_MissingPathFallsBack ==
    (sslCall.called /\ NamesMissingPath(CalledSetting)) => sslCall.result = ResTrue(TRUE)

-----------------------------------------------------------------------------
(* Claims about the shared session, checked under SpecSession *)

\* the methods and the retryable statuses the claims name
ClaimMethods == {"GET", "POST", "PUT", "PATCH", "DELETE"}
ClaimRetryable == {500, 502, 503, 504, 429}

IsRetryableAnswer(o) == o.kind = "response" /\ o.status \in ClaimRetryable
AllRetryable(h) == \A i \in 1..Len(h) : IsRetryableAnswer(h[i])
IsClientError(o) == o.kind = "response" /\ o.status \in 400..499 /\ o.status # 429

\* C1: for each of GET, POST, PUT, PATCH, DELETE: while every answer so far
\* carried a status of {500, 502, 503, 504, 429} and fewer than 5 requests
\* were answered, the session has sent the next request; and when k-1 such
\* answers are followed by a 200 on attempt k <= 5, that 200 is returned and
\* exactly k requests were sent.
C1_RetryUntilSuccess ==
    (reqPc # "idle" /\ reqMethod \in ClaimMethods) =>
        /\ (AllRetryable(hist) /\ Len(hist) <= 4) =>
               (reqPc = "sending" /\ sent = Len(hist) + 1)
        /\ ( /\ Len(hist) \in 1..5
             /\ AllRetryable(SubSeq(hist, 1, Len(hist) - 1))
             /\ hist[Len(hist)] = Response(200, FALSE) ) =>
               (reqPc = "returned" /\ reqResult = Response(200, FALSE) /\ sent = Len(hist))

\* a POST answered 500, 429 (with Retry-After), 503, 502 and then 200
C1_Witness ==
    /\ reqMethod = "POST"
    /\ hist = << Response(500, FALSE), Response(429, TRUE), Response(503, FALSE),
                 Response(502, FALSE), Response(200, FALSE) >>
    /\ reqPc = "returned"
    /\ reqResult.status = 200
    /\ sent = 5

\* C2: a response with a 4xx status other than 429 is never retried: exactly
\* one request is sent and that response is returned unchanged.
C2_ClientErrorNeverRetried ==
    (reqPc # "idle" /\ hist # <<>> /\ IsClientError(hist[1])) =>
        (reqPc = "returned" /\ sent = 1 /\ reqResult = hist[1])

\* C3: when every attempt is answered with a retryable status, the session
\* sends exactly 5 requests (never a sixth) and then returns the fifth response,
\* status unchanged, without raising.
C3_ExhaustionReturnsLast ==
    /\ sent <= 5
    /\ (reqPc # "idle" /\ reqMethod \in ClaimMethods /\ AllRetryable(hist)) =>
          IF Len(hist) < 5
          THEN reqPc = "sending" /\ sent = Len(hist) + 1
          ELSE reqPc = "returned" /\ sent = 5 /\ reqResult = hist[5]

\* a DELETE answered 504 five times
C3_Witness ==
    /\ reqMethod = "DELETE"
    /\ hist = [i \in 1..5 |-> Response(504, FALSE)]
    /\ reqPc = "returned"
    /\ reqResult = Response(504, FALSE)
    /\ sent = 5

-----------------------------------------------------------------------------
(* Claims about the batch fetch, checked under SpecBatch *)

KeySet == { epic_keys[i] : i \in Tasks }
DistinctKeys == Cardinality(KeySet) = Len(epic_keys)

\* the task's request was answered 200 with the JSON text of its issue
Succeeded(i) ==
    lastResp[i] = HttpResponse(200, "application/json", epic_keys[i])

\* a 5xx response, a timeout or a network error (aiohttp.ClientError, which
\* includes a 200 whose content type is not JSON)
IsTransientFailure(r) ==
    \/ r.kind \in {"TimeoutError", "ClientError"}
    \/ r.kind = "response" /\ r.status >= 500
    \/ r.kind = "response" /\ r.status = 200 /\ r.ctype # "application/json"

InFlight == { i \in Tasks : taskPc[i] = "request" }

\* C8: at no time do more than max_concurrent tasks have a request in flight.
C8_BoundedInFlight == Cardinality(InFlight) <= max_concurrent

\* the gate is full and a task is held back by it
C8_Witness ==
    /\ batchPc = "running"
    /\ Cardinality(InFlight) = max_concurrent
    /\ \E i \in Tasks : taskPc[i] = "waiting"

\* C9: no outcome of an individual request makes the batch raise: the call
\* returns the mapping, and no task ends with an exception.
C9_NeverRaises ==
    /\ batchPc # "raised"
    /\ \A i \in Tasks : taskPc[i] # "raised"

\* the sleeps before the first n retries: 2^0, 2^1, ...
Backoffs(n) == [a \in 1..n |-> 2 ^ (a - 1)]

\* C10: an item issues at most 3 requests; a 5xx response, a timeout or a
\* network error on attempt index a in {0, 1} is followed by a sleep of 2^a
\* seconds and one more request; a 200 carrying the issue's JSON on attempt k
\* returns the payload after exactly k requests; a third failure maps the item
\* to None and no further request is made.
C10_ThreeAttemptsWithBackoff ==
    \A i \in Tasks :
        /\ nreq[i] <= 3
        /\ taskPc[i] = "request" => (nreq[i] = attempt[i] + 1 /\ slept[i] = Backoffs(attempt[i]))
        /\ IsTransientFailure(lastResp[i]) =>
              \/ /\ taskPc[i] = "sleep"
                 /\ attempt[i] \in {0, 1}
                 /\ nreq[i] = attempt[i] + 1
                 /\ slept[i] = Backoffs(attempt[i] + 1)
              \/ /\ taskPc[i] = "done"
                 /\ attempt[i] = 2
                 /\ nreq[i] = 3
                 /\ taskResult[i] = NoneValue
        /\ Succeeded(i) =>
              /\ taskPc[i] = "done"
              /\ taskResult[i] = Payload(epic_keys[i])
              /\ nreq[i] = attempt[i] + 1
              /\ slept[i] = Backoffs(attempt[i])

\* an item that slept 1 s and 2 s and got its payload from the third request
C10_Witness ==
    \E i \in Tasks :
        /\ Succeeded(i)
        /\ nreq[i] = 3
        /\ slept[i] = <<1, 2>>
        /\ taskResult[i] = Payload(epic_keys[i])

\* a 4xx response other than 429 (403, 404, ...)
IsClientErrorResponse(r) ==
    r.kind = "response" /\ r.status \in 400..499 /\ r.status # 429

\* C11 as stated: an item answered with a non-retryable client error has
\* issued exactly one request and has not slept, whichever attempt the answer
\* came on, and maps to None.
C11_ExactlyOneRequest ==
    \A i \in Tasks :
        IsClientErrorResponse(lastResp[i]) =>
            /\ taskPc[i] = "done"
            /\ taskResult[i] = NoneValue
            /\ nreq[i] = 1
            /\ slept[i] = <<>>

\* C11 (amended): a non-retryable client-error response ends the item at the
\* attempt it arrives on: no request and no sleep follow it (the item has made
\* attempt + 1 requests and slept only before them, so exactly one request
\* and no sleep when it is the first answer), and the item maps to None.
C11_ClientErrorEndsItem ==
    \A i \in Tasks :
        IsClientErrorResponse(lastResp[i]) =>
            /\ taskPc[i] = "done"
            /\ taskResult[i] = NoneValue
            /\ nreq[i] = attempt[i] + 1
            /\ slept[i] = Backoffs(attempt[i])

\* a 404 that answered the second request of an item, after one backoff
C11_Witness ==
    \E i \in Tasks :
        /\ lastResp[i].status = 404
        /\ attempt[i] = 1
        /\ nreq[i] = 2
        /\ slept[i] = <<1>>
        /\ taskPc[i] = "done"
        /\ taskResult[i] = NoneValue

\* C12: called with an empty id list, each of the four entry points returns an
\* empty mapping and has made no session, no semaphore and no task, so that
\* nothing was acquired and no request was issued.
C12_EmptyListNoWork ==
    (batchPc # "idle" /\ epic_keys = <<>>) =>
        /\ batchPc = "returned"
        /\ callerGot = "dict"
        /\ results = <<>>
        /\ created = {}
        /\ semaphore = 0
        /\ taskPc = <<>>
        /\ nreq = <<>>

\* fetch_issues_sync called with [] from inside a running event loop
C12_Witness ==
    /\ batchPc = "returned"
    /\ epic_keys = <<>>
    /\ entry = "fetch_issues_sync"
    /\ inLoop
    /\ callerGot = "dict"

\* C19: a 429 response is handled as a transient failure like a 5xx: on
\* attempt 0 or 1 the item sleeps and is tried again, and only a third failure
\* maps it to None.
C19_RateLimitRetried ==
    \A i \in Tasks :
        (lastResp[i].kind = "response" /\ lastResp[i].status = 429) =>
            \/ taskPc[i] = "sleep" /\ attempt[i] \in {0, 1}
            \/ taskPc[i] = "done" /\ attempt[i] = 2 /\ nreq[i] = 3

\* C20: when the call returns, every occurrence of an id in the list has had
\* its own task with its own requests (between 1 and 3, one per attempt), and
\* the mapping holds each id of the list exactly once, with the payload or the
\* None that one of its occurrences returned.
C20_DuplicateIds ==
    (batchPc = "returned" /\ epic_keys # <<>>) =>
        /\ DOMAIN taskPc = 1..Len(epic_keys)
        /\ \A i \in Tasks :
              /\ taskPc[i] = "done"
              /\ nreq[i] = attempt[i] + 1
              /\ nreq[i] \in 1..Attempts
        /\ DOMAIN results = KeySet
        /\ \A k \in KeySet :
              /\ results[k] \in { taskResult[i] : i \in { j \in Tasks : epic_keys[j] = k } }
              /\ results[k] \in { Payload(k), NoneValue }

\* the same id twice: the first occurrence needed one request, the second three
C20_Witness ==
    /\ batchPc = "returned"
    /\ epic_keys = <<1, 1>>
    /\ nreq = <<1, 3>>
    /\ taskResult = <<Payload(1), NoneValue>>
    /\ DOMAIN results = {1}

-----------------------------------------------------------------------------
(* Claims about the pagination loops, checked under SpecPage *)

\* the server answers every request below its total with a full page
FullPages ==
    \A s \in DOMAIN serves : serves[s] = FullPage(dataTotal, page_size, s)

\* startAt = 0, page_size, 2 * page_size, ... of n requests
StartAts(n) == [j \in 1..n |-> (j - 1) * page_size]

\* the first T issues of the server, in its order
ServerItems(T) == [i \in 1..T |-> i]

\* C13 as stated: against a server with constant total T and full pages the
\* finished fetch has issued exactly ceil(T / page_size) requests, at startAt
\* 0, page_size, 2 * page_size, ..., and returns the T issues in order.
C13_CeilRequests ==
    (pagePc = "done" /\ FullPages) =>
        /\ pageReqs = StartAts(CeilDiv(dataTotal, page_size))
        /\ issues = ServerItems(dataTotal)

\* C13 (amended): against a server with constant total T and full pages the
\* fetch issues exactly max(1, ceil(T / page_size)) requests, at startAt 0,
\* page_size, 2 * page_size, ..., and returns the T issues in the server's
\* order; for T = 75 and page_size = 50 that is 2 requests and 75 issues.
C13_FullPagesFetch ==
    (pagePc # "idle" /\ FullPages) =>
        LET N == IF dataTotal = 0 THEN 1 ELSE CeilDiv(dataTotal, page_size)
        IN  /\ Len(pageReqs) <= N
            /\ pageReqs = StartAts(Len(pageReqs))
            /\ pagePc = "done" =>
                  /\ pageReqs = StartAts(N)
                  /\ issues = ServerItems(dataTotal)
                  /\ (dataTotal = TestTotal /\ page_size = DefaultPageSize) =>
                        (Len(pageReqs) = 2 /\ Len(issues) = 75)

\* jpt.get_issues against the server of the test: 75 issues in pages of 50
C13_Witness ==
    /\ pagePc = "done"
    /\ pageFn = "get_issues"
    /\ FullPages
    /\ dataTotal = 75
    /\ page_size = 50
    /\ pageReqs = <<0, 50>>
    /\ Len(issues) = 75

\* C14: each request after the first starts right after the last issue
\* received so far (start_at advances by the number received), and the
\* finished fetch holds each of the server's total issues exactly once, in
\* order, also when a non-final page was short.
C14_AdvanceByReceived ==
    /\ \A j \in 2..Len(pageReqs) :
          pageReqs[j] = pageReqs[j - 1] + ServerPage(pageReqs[j - 1])
    /\ pagePc = "done" => issues = ServerItems(dataTotal)

\* C15: every pagination loop terminates, whatever page lengths the server
\* answers with.
C15_Terminates == (pagePc = "fetching") ~> (pagePc = "done")

\* C16: when the first response declares total = 0 or carries no issue, the
\* fetch is over after that one request and returns the empty list.
C16_EmptyFirstPageStops ==
    (Len(pageReqs) >= 1 /\ (dataTotal = 0 \/ ServerPage(0) = 0)) =>
        /\ pagePc = "done"
        /\ pageReqs = <<0>>
        /\ issues = <<>>

-----------------------------------------------------------------------------
(* Claims about the shared session, checked under SpecClient *)

\* C17: the calls between two invalidations all return the same session
\* object; a session keeps the retry adapter, auth and verify of its
\* creation, and these are the ones the configuration gave when it was built.
C17_SameSessionUntilCleared ==
    /\ Cardinality(epochGot) <= 1
    /\ \A i \in DOMAIN sessions :
          /\ sessions[i].retry = RetryTotal
          /\ sessions[i].auth = sessions[i].fileAuthThen
          /\ sessions[i].verify = sessions[i].verifyThen

\* C18: while the cache has never been cleared, only one session is
\* constructed and every caller that got a session got that one, also when
\* the first calls overlap.
C18_OneSessionPerProcess ==
    ~everCleared =>
        /\ Len(sessions) <= 1
        /\ \A t, u \in Threads : (thGot[t] > 0 /\ thGot[u] > 0) => thGot[t] = thGot[u]

-----------------------------------------------------------------------------
(* More claims about the shared session, checked under SpecSession *)

\* C22: the delay before the n-th retry of a call (n = 1..4) is the backoff
\* 1.0 * 2^(n-1) seconds, i.e. 1, 2, 4, 8 (unless a Retry-After header sets the
\* delay); there is one delay per retry and none after the final attempt.
C22_BackoffOneTwoFourEight ==
    /\ reqPc # "idle" => Len(sleeps) = sent - 1
    /\ Len(sleeps) <= RetryTotal
    /\ \A n \in 1..Len(sleeps) :
          sleeps[n].by = "backoff" => sleeps[n].backoff = 2 ^ (n - 1)

-----------------------------------------------------------------------------
(* More claims about the batch fetch, checked under SpecBatch *)

\* what the task's own final response stands for in the mapping
OwnOutcome(i) == IF Succeeded(i) THEN Payload(epic_keys[i]) ELSE NoneValue

\* C21: the mapping the call hands back is fixed by the responses of each id and
\* not by the schedule: once the call is over it has returned, and every id maps
\* to the outcome of its own responses, whatever the other ids were answered.
C21_OutcomePerId ==
    batchPc \in {"returned", "raised"} =>
        /\ batchPc = "returned"
        /\ results = DictOf(epic_keys, [i \in Tasks |-> OwnOutcome(i)])

SyncEntries == {"fetch_epics_sync", "fetch_issues_sync"}

\* C24: what fetch_epics_sync or fetch_issues_sync hands to its caller, with or
\* without a running event loop, is a completed dict that maps each requested
\* key to its issue JSON or to None.
C24_SyncReturnsDict ==
    (entry \in SyncEntries /\ callerGot # "nothing") =>
        /\ callerGot = "dict"
        /\ batchPc = "returned"
        /\ DOMAIN results = KeySet
        /\ \A k \in KeySet : results[k] \in {NoneValue, Payload(k)}

-----------------------------------------------------------------------------
(* More claims about get_jira_session, checked under SpecClient *)

EnvFalse == <<"f","a","l","s","e">>

C29_RejectionNotCached ==
    /\ lastCall.outcome = "raised" => ~lastCall.stored
    /\ lastCall.after => (lastCall.outcome = "raised" <=> lastCall.rejected)

\* C25: every request of the batch is made with the trust mode of the
\* ssl_verify argument: against the CA bundle when it is a path, with standard
\* verification when it is True, and never with verification disabled.
C25_RequestsUseTrustMode ==
    /\ "disabled" \notin reqTrust
    /\ ssl_verify_arg = "path" => reqTrust \subseteq {"bundle"}
    /\ ssl_verify_arg = "True" => reqTrust \subseteq {"default"}

\* C28: every slot a task takes is given back on each of its exit paths, a
\* sleeping task keeps its slot, a task makes at most 3 requests, and when the
\* call is over every task it scheduled has been admitted and has run to its
\* end, so that no slot is held.
C28_SlotsReleasedAllComplete ==
    /\ "Semaphore" \in created =>
          /\ semaphore + Cardinality(Holders) = max_concurrent
          /\ semaphore >= 0
    /\ \A i \in Tasks : nreq[i] <= Attempts
    /\ batchPc \in {"returned", "raised"} =>
          /\ Pending = {}
          /\ Holders = {}
          /\ \A i \in Tasks : nreq[i] >= 1

-----------------------------------------------------------------------------
(* Claims about jpt.jira_get, checked under SpecGet *)

IsGetRetryable(o) == o.kind # "response" \/ IsServerError(o.status)

\* C30: a call sends at most max_retries GETs; a response that is no 5xx is
\* returned at once (as the first answer: after exactly 1 GET); when every
\* attempt gives a 5xx or a request exception the call raises HTTPError or that
\* exception after exactly max_retries GETs, having slept backoff * attempt
\* between attempts; no 5xx response is returned and the final RuntimeError is
\* never raised.
C30_BoundedRetries ==
    /\ getSent <= max_retries
    /\ \A n \in 1..Len(getSleeps) : getSleeps[n] = backoff * n
    /\ getPc = "returned" =>
          /\ getResult = getHist[Len(getHist)]
          /\ getResult.kind = "response" /\ ~IsServerError(getResult.status)
          /\ getSent = Len(getHist)
          /\ Len(getSleeps) = getSent - 1
          /\ \A n \in 1..(Len(getHist) - 1) : IsGetRetryable(getHist[n])
    /\ getPc = "raised" =>
          /\ getSent = max_retries
          /\ Len(getHist) = max_retries
          /\ \A n \in 1..Len(getHist) : IsGetRetryable(getHist[n])
          /\ Len(getSleeps) = max_retries - 1
          /\ getResult = IF getHist[max_retries].kind = "response"
                         THEN GetException("HTTPError")
                         ELSE getHist[max_retries]
    /\ getResult # GetException("RuntimeError")

\* a call with the default max_retries whose four attempts all failed, by a 5xx
\* and by exceptions, and that raised after the sleeps b, 2b, 3b
C30_Witness ==
    /\ getPc = "raised"
    /\ max_retries = DefaultMaxRetries
    /\ backoff = 2
    /\ getSleeps = <<2, 4, 6>>
    /\ getHist[1] = GetResponse(500)
    /\ getHist[2] = GetException("Timeout")
    /\ getHist[4] = GetResponse(599)
    /\ getResult = GetException("HTTPError")

-----------------------------------------------------------------------------
(* Claims about get_cached_sprint_metadata, checked under SpecMeta *)

\* the argument tuples that stand for the key k
FormsOf(k) == { c \in CacheKeys : LogicalKey(c) = k }

LogicalKeys == { LogicalKey(c) : c \in CacheKeys }

-----------------------------------------------------------------------------
(* Claims about SensitiveDataFilter, checked under SpecLog *)

\* C27: filter returns True and leaves every argument that is no str as it
\* was, in type and in value; only str content is redacted.
C27_NonStringArgsUnchanged ==
    logPc = "filtered" =>
        /\ filterRet = TRUE
        /\ Len(recArgs.items) = Len(recMade.args.items)
        /\ \A i \in 1..Len(recArgs.items) :
              /\ recMade.args.items[i].type # "str" =>
                    recArgs.items[i] = recMade.args.items[i]
              /\ recMade.args.items[i].type = "str" =>
                    recArgs.items[i] = Redact(recMade.args.items[i])

====
